---- MODULE Spec2Model ----
(***************************************************************************)
(* Model of the two metric engines of jupyter-financial-models:            *)
(*   src/stock-data.py      calculate_stock_metrics           (TTM)        *)
(*   src/multiyear_data.py  calculate_stock_metrics_multiyear (per year)   *)
(*                                                                         *)
(* A Python value is a record [k, n, d]: k = "none" is None, k = "num" is  *)
(* the number n/d in lowest terms with d > 0, k = "inf" is float('inf').   *)
(* A statement table is a function from line-item name to value, where     *)
(* None stands for a row the table does not have.                          *)
(***************************************************************************)
EXTENDS Integers, Sequences, FiniteSets, TLC

VARIABLES pc, engine, info, ttm_data, financials, balance_sheet, cashflow,
          empty, ncols, year, metrics, metrics_by_year, ret, exc, report

vars == <<pc, engine, info, ttm_data, financials, balance_sheet, cashflow,
          empty, ncols, year, metrics, metrics_by_year, ret, exc, report>>

\* Largest number of fiscal-year columns the annual income statement carries.
MaxPeriods == 2

----------------------------------------------------------------------------
\* Python values and arithmetic

None == [k |-> "none", n |-> 0, d |-> 1]

Inf == [k |-> "inf", n |-> 1, d |-> 1]

Abs(i) == IF i < 0 THEN -i ELSE i

RECURSIVE GCD(_, _)
GCD(a, b) == IF b = 0 THEN a ELSE GCD(b, a % b)

\* the number p/q (q # 0) in lowest terms with a positive denominator
Rat(p, q) ==
  LET g == GCD(Abs(p), Abs(q))
      s == IF q < 0 THEN -1 ELSE 1
  IN [k |-> "num", n |-> (s * p) \div g, d |-> Abs(q) \div g]

Num(i) == [k |-> "num", n |-> i, d |-> 1]

IsNone(v) == v.k = "none"

IsNum(v) == v.k = "num"

IsZero(v) == v.k = "num" /\ v.n = 0

\* Python truthiness of None or a number: None and 0 are falsy
Truthy(v) == v.k = "inf" \/ (v.k = "num" /\ v.n # 0)

Add(a, b) == Rat(a.n * b.d + b.n * a.d, a.d * b.d)

Sub(a, b) == Rat(a.n * b.d - b.n * a.d, a.d * b.d)

Mul(a, b) == Rat(a.n * b.n, a.d * b.d)

\* a / b for b # 0
Div(a, b) == Rat(a.n * b.d, a.d * b.n)

Less(a, b) == a.n * b.d < b.n * a.d

\* v > 0 on numbers
Positive(v) == v.k = "num" /\ v.n > 0

PyMin(a, b) == IF Less(b, a) THEN b ELSE a

PyMax(a, b) == IF Less(a, b) THEN b ELSE a

\* the clamp without its floor: min(1, tax_rate)
ClampNoFloor(v) == PyMin(Num(1), v)

\* max(0, min(1, tax_rate))
Clamp(v) == PyMax(Num(0), PyMin(Num(1), v))

\* Series.get(key) / dict.get(key): the value, or None for a missing key
Get(t, key) == IF key \in DOMAIN t THEN t[key] ELSE None

\* Series.get(key, 0): the value, or 0 for a missing row
GetOr0(t, key) == IF IsNone(Get(t, key)) THEN Num(0) ELSE t[key]

\* a str value (a company name, a ticker)
Str == [k |-> "str", n |-> 0, d |-> 1]

\* a table with none of its rows
NoRows(keys) == [key \in keys |-> None]

InfoKeys == {"enterpriseValue", "totalDebt", "longName", "shortName"}

IncomeKeys == {"EBITDA", "EBIT", "Tax Provision", "Pretax Income"}

BalanceKeys == {"Short Long Term Debt", "Long Term Debt", "Total Debt",
                "Total Equity Gross Minority Interest",
                "Long Term Capital Lease Obligation",
                "Current Capital Lease Obligation"}

CashflowKeys == {"Free Cash Flow", "Capital Expenditure"}

----------------------------------------------------------------------------
\* src/stock-data.py: calculate_stock_metrics

\* the metrics dict as first built
SingleMetrics0 ==
  [key \in {"Ticker", "Enterprise Value (EV)", "Free Cash Flow (FCF)", "EBITDA",
            "Total Debt", "Total Equity", "EBIT", "Tax Rate", "NOPAT",
            "Operating Lease Liabilities", "Invested Capital", "EV/FCF Yield",
            "Total Debt / EBITDA", "EV / EBITDA", "ROIC"} |->
     IF key = "Ticker" THEN Str
     ELSE IF key = "Operating Lease Liabilities" THEN Num(0)
     ELSE None]

\* the fetch guard: a statement is empty and the profile names no company
InvalidTicker(inf, emp) ==
  /\ emp \cap {"financials", "balance_sheet", "cashflow"} # {}
  /\ IsNone(inf["longName"])
  /\ IsNone(inf["shortName"])

\* sections 1-3: EV, FCF, EBITDA
SingleBasics(m, inf, ttm, cf) ==
  [m EXCEPT !["Enterprise Value (EV)"] = Get(inf, "enterpriseValue"),
            !["Free Cash Flow (FCF)"] = Get(cf, "Free Cash Flow"),
            !["EBITDA"] = Get(ttm, "EBITDA")]

\* section 4: total debt
SingleTotalDebt(inf, bs, emp) ==
  IF "balance_sheet" \notin emp
  THEN LET short_term_debt == GetOr0(bs, "Short Long Term Debt")
           long_term_debt == GetOr0(bs, "Long Term Debt")
           total_debt_direct == Get(inf, "totalDebt")
       IN IF ~IsNone(total_debt_direct) THEN total_debt_direct
          ELSE IF ~IsNone(short_term_debt) /\ ~IsNone(long_term_debt)
               THEN Add(short_term_debt, long_term_debt)
          ELSE None
  ELSE None

\* section 5: total equity
SingleTotalEquity(bs, emp) ==
  IF "balance_sheet" \notin emp
  THEN Get(bs, "Total Equity Gross Minority Interest")
  ELSE None

\* section 6: EBIT, tax rate and NOPAT
SingleNopat(m, ttm, emp) ==
  IF "financials" \notin emp
  THEN LET ebit == Get(ttm, "EBIT")
           tax_expense == Get(ttm, "Tax Provision")
           ebt == Get(ttm, "Pretax Income")
           m1 == [m EXCEPT !["EBIT"] = ebit]
       IN IF ~IsNone(ebit) /\ ~IsNone(tax_expense) /\ ~IsNone(ebt) /\ ~IsZero(ebt)
          THEN LET tax_rate == Clamp(Div(tax_expense, ebt))
               IN [m1 EXCEPT !["Tax Rate"] = tax_rate,
                             !["NOPAT"] = Mul(ebit, Sub(Num(1), tax_rate))]
          ELSE m1
  ELSE m

\* section 7: None + number raises TypeError, outside any try
SingleLeasesRaise(bs, emp) ==
  /\ "balance_sheet" \notin emp
  /\ \/ IsNone(Get(bs, "Long Term Capital Lease Obligation"))
     \/ IsNone(Get(bs, "Current Capital Lease Obligation"))

SingleLeases(bs, emp) ==
  IF "balance_sheet" \notin emp
  THEN Add(Get(bs, "Long Term Capital Lease Obligation"),
           Get(bs, "Current Capital Lease Obligation"))
  ELSE Num(0)

\* section 8: invested capital
SingleInvestedCapital(m) ==
  LET total_debt == m["Total Debt"]
      total_equity == m["Total Equity"]
      op_leases == m["Operating Lease Liabilities"]
  IN IF ~IsNone(total_debt) /\ ~IsNone(total_equity)
     THEN IF Positive(op_leases)
          THEN Add(Add(total_debt, total_equity), op_leases)
          ELSE Add(total_debt, total_equity)
     ELSE m["Invested Capital"]

\* section 9: one ratio block, numer / denom
SingleRatio(numer, denom) ==
  IF ~IsNone(numer) /\ ~IsNone(denom) /\ ~IsZero(denom) THEN Div(numer, denom)
  ELSE IF IsZero(denom)
       THEN IF ~IsNone(numer) /\ Positive(numer) THEN Inf ELSE Num(0)
  ELSE None

SingleEvFcfYield(m) ==
  SingleRatio(m["Free Cash Flow (FCF)"], m["Enterprise Value (EV)"])

SingleDebtToEbitda(m) == SingleRatio(m["Total Debt"], m["EBITDA"])

SingleEvToEbitda(m) == SingleRatio(m["Enterprise Value (EV)"], m["EBITDA"])

SingleRoic(m) == SingleRatio(m["NOPAT"], m["Invested Capital"])

\* the exception the body raises, or "none"
SingleException(bs, emp) ==
  IF "cashflow" \in emp THEN "IndexError"
  ELSE IF SingleLeasesRaise(bs, emp) THEN "TypeError"
  ELSE "none"

\* the profile's own ratios, copied; None for a key the profile lacks
SinglePassthrough(inf) ==
  [key \in {"ROE", "ROA", "EBITDA_MARGIN"} |->
     IF key = "ROE" THEN Get(inf, "returnOnEquity")
     ELSE IF key = "ROA" THEN Get(inf, "returnOnAssets")
     ELSE Get(inf, "ebitdaMargins")]

\* the dict the body returns when nothing raises
SingleBody(inf, ttm, bs, cf, emp) ==
  LET m1 == SingleBasics(SingleMetrics0, inf, ttm, cf)
      m2 == [m1 EXCEPT !["Total Debt"] = SingleTotalDebt(inf, bs, emp),
                       !["Total Equity"] = SingleTotalEquity(bs, emp)]
      m3 == SingleNopat(m2, ttm, emp)
      m4 == [m3 EXCEPT !["Operating Lease Liabilities"] = SingleLeases(bs, emp)]
      m5 == [m4 EXCEPT !["Invested Capital"] = SingleInvestedCapital(m4)]
      m6 == [m5 EXCEPT !["EV/FCF Yield"] = SingleEvFcfYield(m5),
                       !["Total Debt / EBITDA"] = SingleDebtToEbitda(m5),
                       !["EV / EBITDA"] = SingleEvToEbitda(m5),
                       !["ROIC"] = SingleRoic(m5)]
  IN m6 @@ SinglePassthrough(inf)

----------------------------------------------------------------------------
\* src/stock-data.py: display_metrics

\* the metrics display_metrics prints a line for
DisplayKeys ==
  {"Ticker", "EV/FCF Yield", "Total Debt / EBITDA", "EV / EBITDA", "ROIC",
   "ROE", "ROA", "EBITDA_MARGIN", "Enterprise Value (EV)",
   "Free Cash Flow (FCF)", "EBITDA", "Total Debt", "Total Equity", "EBIT",
   "Tax Rate", "NOPAT", "Operating Lease Liabilities", "Invested Capital"}

\* one printed value: a formatted number for an int or float, and otherwise
\* the text of metrics.get(key, 'N/A'), which is 'None' for a key held as None
DisplayCell(m, key) ==
  IF key \notin DOMAIN m THEN "N/A"
  ELSE IF m[key].k = "num" THEN "number"
  ELSE IF m[key].k = "inf" THEN "inf"
  ELSE IF m[key].k = "none" THEN "None"
  ELSE "text"

\* the note printed when metrics.get('Operating Lease Liabilities', 0) == 0
DisplayLeaseNote(m) ==
  IF "Operating Lease Liabilities" \in DOMAIN m
  THEN IsZero(m["Operating Lease Liabilities"])
  ELSE TRUE

\* what display_metrics prints for a dict
display_metrics(m) ==
  [kind |-> "metrics",
   cells |-> [key \in DisplayKeys |-> DisplayCell(m, key)],
   note |-> DisplayLeaseNote(m)]

\* nothing printed yet
NoReport ==
  [kind |-> "none", cells |-> [key \in DisplayKeys |-> ""], note |-> FALSE]

\* "Could not process ticker ..."
CouldNotProcess == [NoReport EXCEPT !.kind = "could not process"]

\* display_metrics_multiyear: the table of the years; its rows print the
\* values of dicts the state no longer holds
YearTable == [NoReport EXCEPT !.kind = "table"]

----------------------------------------------------------------------------
\* src/multiyear_data.py: calculate_stock_metrics_multiyear, one loop iteration

\* the metrics dict of one year as first built
MultiMetrics0(inf, y) ==
  [key \in {"Ticker", "Year", "Enterprise Value (EV)", "Free Cash Flow (FCF)",
            "EBITDA", "Total Debt", "Total Equity", "EBIT", "Tax Rate", "NOPAT",
            "Invested Capital", "EV/FCF Yield", "Total Debt / EBITDA",
            "EV / EBITDA", "ROIC"} |->
     IF key = "Ticker" THEN Str
     ELSE IF key = "Year" THEN Num(y)
     ELSE IF key = "Enterprise Value (EV)" THEN Get(inf, "enterpriseValue")
     ELSE None]

\* table.loc[key, year] raises KeyError for a row the table does not have
KeyError(t, key) == IsNone(Get(t, key))

\* free cash flow: the statement's item less capital expenditure
MultiFcf(cf) ==
  IF KeyError(cf, "Free Cash Flow") \/ KeyError(cf, "Capital Expenditure")
  THEN None
  ELSE Sub(cf["Free Cash Flow"], cf["Capital Expenditure"])

\* EBITDA, total debt, total equity, EBIT: the row's value, None on KeyError
MultiLookups(m, fin, bs, cf) ==
  [m EXCEPT !["Free Cash Flow (FCF)"] = MultiFcf(cf),
            !["EBITDA"] = Get(fin, "EBITDA"),
            !["Total Debt"] = Get(bs, "Total Debt"),
            !["Total Equity"] = Get(bs, "Total Equity Gross Minority Interest"),
            !["EBIT"] = Get(fin, "EBIT")]

\* the tax block multiplies EBIT while only KeyError is caught
MultiNopatRaises(m, fin) ==
  /\ ~KeyError(fin, "Pretax Income")
  /\ ~KeyError(fin, "Tax Provision")
  /\ Truthy(fin["Pretax Income"])
  /\ Truthy(fin["Tax Provision"])
  /\ IsNone(m["EBIT"])

\* tax rate and NOPAT
MultiNopat(m, fin) ==
  IF KeyError(fin, "Pretax Income") \/ KeyError(fin, "Tax Provision")
  THEN [m EXCEPT !["Tax Rate"] = None, !["NOPAT"] = None]
  ELSE LET ebt == fin["Pretax Income"]
           tax_expense == fin["Tax Provision"]
       IN IF Truthy(ebt) /\ Truthy(tax_expense)
          THEN LET tax_rate == Clamp(Div(tax_expense, ebt))
               IN [m EXCEPT !["Tax Rate"] = tax_rate,
                            !["NOPAT"] = Mul(m["EBIT"], Sub(Num(1), tax_rate))]
          ELSE m

\* invested capital: the sum, None on TypeError
MultiInvestedCapital(m) ==
  IF IsNone(m["Total Debt"]) \/ IsNone(m["Total Equity"])
  THEN None
  ELSE Add(m["Total Debt"], m["Total Equity"])

\* one ratio: computed only when both operands are truthy
MultiRatio(numer, denom, old) ==
  IF Truthy(numer) /\ Truthy(denom) THEN Div(numer, denom) ELSE old

MultiEvFcfYield(m) ==
  MultiRatio(m["Free Cash Flow (FCF)"], m["Enterprise Value (EV)"], m["EV/FCF Yield"])

MultiDebtToEbitda(m) ==
  MultiRatio(m["Total Debt"], m["EBITDA"], m["Total Debt / EBITDA"])

MultiEvToEbitda(m) ==
  MultiRatio(m["Enterprise Value (EV)"], m["EBITDA"], m["EV / EBITDA"])

MultiRoic(m) == MultiRatio(m["NOPAT"], m["Invested Capital"], m["ROIC"])

\* the exception one iteration raises, or "none"
MultiException(inf, fin, bs, cf, y) ==
  IF MultiNopatRaises(MultiLookups(MultiMetrics0(inf, y), fin, bs, cf), fin)
  THEN "TypeError"
  ELSE "none"

\* the dict one iteration stores when nothing raises
MultiBody(inf, fin, bs, cf, y) ==
  LET m1 == MultiLookups(MultiMetrics0(inf, y), fin, bs, cf)
      m2 == MultiNopat(m1, fin)
      m3 == [m2 EXCEPT !["Invested Capital"] = MultiInvestedCapital(m2)]
  IN [m3 EXCEPT !["EV/FCF Yield"] = MultiEvFcfYield(m3),
                !["Total Debt / EBITDA"] = MultiDebtToEbitda(m3),
                !["EV / EBITDA"] = MultiEvToEbitda(m3),
                !["ROIC"] = MultiRoic(m3)]

----------------------------------------------------------------------------
\* What the data source may hand over

Statements == {"financials", "balance_sheet", "cashflow"}

\* info: the profile; a ticker with every statement has a name
Profiles(emp, debts) ==
  { [key \in InfoKeys |->
       IF key = "enterpriseValue" THEN ev
       ELSE IF key = "totalDebt" THEN td
       ELSE IF key = "longName" THEN name
       ELSE None] :
    ev \in IF emp = {} THEN {None, Num(0), Num(1000)} ELSE {None, Num(1000)},
    td \in debts,
    name \in IF emp = {} THEN {Str} ELSE {None, Str} }

\* the income rows: the four-quarter sums (TTM) or one annual column
IncomeRows(emp) ==
  { [key \in IncomeKeys |->
       IF key = "EBITDA" THEN ebitda
       ELSE IF key = "EBIT" THEN ebit
       ELSE IF key = "Tax Provision" THEN tax
       ELSE pretax] :
    ebitda \in IF emp = {} THEN {None, Num(0), Num(100)} ELSE {None, Num(100)},
    ebit \in IF emp = {} THEN {None, Num(200), Num(-200)} ELSE {None, Num(200)},
    tax \in IF emp = {} THEN {None, Num(0), Num(50), Num(-50), Num(300)}
            ELSE {None, Num(50)},
    pretax \in IF emp = {} THEN {None, Num(0), Num(250), Num(-250)}
               ELSE {None, Num(250)} }

\* one column of the cash-flow statement
CashflowRows(emp) ==
  IF "cashflow" \in emp THEN {NoRows(CashflowKeys)}
  ELSE { [key \in CashflowKeys |-> IF key = "Free Cash Flow" THEN fcf ELSE capex] :
         fcf \in IF emp = {} THEN {None, Num(0), Num(120), Num(-120)}
                 ELSE {None, Num(120)},
         capex \in IF emp = {} THEN {None, Num(20)} ELSE {Num(20)} }

\* the latest balance-sheet column, with the rows calculate_stock_metrics reads
SingleBalanceRows(emp) ==
  IF "balance_sheet" \in emp THEN {NoRows(BalanceKeys)}
  ELSE { [key \in BalanceKeys |->
            IF key = "Short Long Term Debt" THEN short
            ELSE IF key = "Long Term Debt" THEN long
            ELSE IF key = "Total Equity Gross Minority Interest" THEN equity
            ELSE IF key = "Long Term Capital Lease Obligation" THEN ltl
            ELSE IF key = "Current Capital Lease Obligation" THEN cl
            ELSE None] :
         short \in IF emp = {} THEN {None, Num(40)} ELSE {Num(40)},
         long \in IF emp = {} THEN {None, Num(60)} ELSE {Num(60)},
         equity \in IF emp = {} THEN {None, Num(200), Num(-315)} ELSE {Num(200)},
         ltl \in {None, Num(10)},
         cl \in IF emp = {} THEN {None, Num(5)} ELSE {Num(5)} }

\* one balance-sheet column, with the rows calculate_stock_metrics_multiyear
\* reads and the lease rows it does not
MultiBalanceRows(emp) ==
  IF "balance_sheet" \in emp THEN {NoRows(BalanceKeys)}
  ELSE { [key \in BalanceKeys |->
            IF key = "Total Debt" THEN td
            ELSE IF key = "Total Equity Gross Minority Interest" THEN equity
            ELSE IF key = "Long Term Capital Lease Obligation" THEN ltl
            ELSE IF key = "Current Capital Lease Obligation" THEN Num(5)
            ELSE None] :
         td \in IF emp = {} THEN {None, Num(0), Num(300)} ELSE {None, Num(300)},
         equity \in IF emp = {} THEN {None, Num(200), Num(-300)} ELSE {Num(200)},
         ltl \in {None, Num(10)} }

----------------------------------------------------------------------------
\* The programs

\* metrics while no dict is built
NoMetrics == [key \in {"Ticker"} |-> None]

Init ==
  /\ pc = "idle"
  /\ engine = "none"
  /\ info = NoRows(InfoKeys)
  /\ ttm_data = NoRows(IncomeKeys)
  /\ financials = NoRows(IncomeKeys)
  /\ balance_sheet = NoRows(BalanceKeys)
  /\ cashflow = NoRows(CashflowKeys)
  /\ empty = {}
  /\ ncols = 0
  /\ year = 0
  /\ metrics = NoMetrics
  /\ metrics_by_year = <<>>
  /\ ret = "pending"
  /\ exc = "none"
  /\ report = NoReport

\* stock-data.py: calculate_stock_metrics(ticker), fetch to return
calculate_stock_metrics ==
  /\ pc = "idle"
  /\ \E emp \in SUBSET Statements :
     \E inf \in Profiles(emp, {None, Num(0), Num(300)}), ttm \in IncomeRows(emp),
        bs \in SingleBalanceRows(emp), cf \in CashflowRows(emp) :
       LET e == SingleException(bs, emp)
       IN /\ info' = inf
          /\ ttm_data' = ttm
          /\ balance_sheet' = bs
          /\ cashflow' = cf
          /\ empty' = emp
          /\ IF InvalidTicker(inf, emp)
             THEN /\ pc' = "done" /\ ret' = "None" /\ exc' = "none"
                  /\ metrics' = NoMetrics
             ELSE IF e # "none"
             THEN /\ pc' = "crashed" /\ ret' = "pending" /\ exc' = e
                  /\ metrics' = NoMetrics
             ELSE /\ pc' = "done" /\ ret' = "metrics" /\ exc' = "none"
                  /\ metrics' = SingleBody(inf, ttm, bs, cf, emp)
  /\ engine' = "single"
  /\ UNCHANGED <<financials, ncols, year, metrics_by_year, report>>

\* multiyear_data.py: the fetch, up to the empty metrics_by_year
MultiyearFetch ==
  /\ pc = "idle"
  /\ \E emp \in SUBSET Statements :
     \E inf \in Profiles(emp, {None}),
        n \in IF "financials" \in emp THEN {0} ELSE 1..MaxPeriods :
          /\ info' = inf
          /\ empty' = emp
          /\ ncols' = n
          /\ IF InvalidTicker(inf, emp)
             THEN pc' = "done" /\ ret' = "None"
             ELSE pc' = "loop" /\ ret' = "pending"
  /\ engine' = "multiyear"
  /\ year' = 0
  /\ metrics_by_year' = <<>>
  /\ UNCHANGED <<ttm_data, financials, balance_sheet, cashflow, metrics, exc,
                 report>>

\* for year in financials.columns: the next column, or the return after the last
MultiyearLoopHead ==
  /\ pc = "loop"
  /\ engine = "multiyear"
  /\ IF year < ncols
     THEN /\ year' = year + 1
          /\ pc' = "body"
          /\ ret' = ret
     ELSE /\ year' = year
          /\ pc' = "done"
          /\ ret' = "metrics_by_year"
  /\ financials' = NoRows(IncomeKeys)
  /\ balance_sheet' = NoRows(BalanceKeys)
  /\ cashflow' = NoRows(CashflowKeys)
  /\ metrics' = NoMetrics
  /\ UNCHANGED <<engine, info, ttm_data, empty, ncols, metrics_by_year, exc,
                 report>>

\* the loop body for the column year
MultiyearLoopBody ==
  /\ pc = "body"
  /\ \E fin \in IncomeRows(empty), bs \in MultiBalanceRows(empty),
        cf \in CashflowRows(empty) :
       LET e == MultiException(info, fin, bs, cf, year)
       IN /\ financials' = fin
          /\ balance_sheet' = bs
          /\ cashflow' = cf
          /\ IF e # "none"
             THEN /\ pc' = "crashed" /\ exc' = e
                  /\ metrics' = NoMetrics
                  /\ metrics_by_year' = metrics_by_year
             ELSE /\ pc' = "loop" /\ exc' = "none"
                  /\ metrics' = MultiBody(info, fin, bs, cf, year)
                  /\ metrics_by_year' = Append(metrics_by_year, year)
  /\ UNCHANGED <<engine, info, ttm_data, empty, ncols, year, ret, report>>

\* either fetch raises: the except clause prints and returns None
FetchFails ==
  /\ pc = "idle"
  /\ \E eng \in {"single", "multiyear"} : engine' = eng
  /\ pc' = "done"
  /\ ret' = "None"
  /\ UNCHANGED <<info, ttm_data, financials, balance_sheet, cashflow, empty,
                 ncols, year, metrics, metrics_by_year, exc, report>>

\* __main__ after the call: the report of a truthy result, or the message
ShowResult ==
  /\ pc = "done"
  /\ pc' = "shown"
  /\ report' =
       IF engine = "single" /\ ret = "metrics" THEN display_metrics(metrics)
       ELSE IF engine = "multiyear" /\ ret = "metrics_by_year"
               /\ Len(metrics_by_year) > 0
            THEN YearTable
       ELSE CouldNotProcess
  /\ UNCHANGED <<engine, info, ttm_data, financials, balance_sheet, cashflow,
                 empty, ncols, year, metrics, metrics_by_year, ret, exc>>

\* the prompt loop of either script: the next ticker
MainLoop ==
  /\ pc = "shown"
  /\ pc' = "idle"
  /\ engine' = "none"
  /\ info' = NoRows(InfoKeys)
  /\ ttm_data' = NoRows(IncomeKeys)
  /\ financials' = NoRows(IncomeKeys)
  /\ balance_sheet' = NoRows(BalanceKeys)
  /\ cashflow' = NoRows(CashflowKeys)
  /\ empty' = {}
  /\ ncols' = 0
  /\ year' = 0
  /\ metrics' = NoMetrics
  /\ metrics_by_year' = <<>>
  /\ ret' = "pending"
  /\ exc' = "none"
  /\ report' = NoReport

Next ==
  \/ calculate_stock_metrics
  \/ MultiyearFetch
  \/ MultiyearLoopHead
  \/ MultiyearLoopBody
  \/ FetchFails
  \/ ShowResult
  \/ MainLoop

Spec == Init /\ [][Next]_vars

----------------------------------------------------------------------------
\* Vocabulary of the properties

\* calculate_stock_metrics has returned its metrics dict
SingleReturned == engine = "single" /\ pc = "done" /\ ret = "metrics"

\* calculate_stock_metrics_multiyear has stored the dict of the column year
MultiStored == engine = "multiyear" /\ pc = "loop" /\ year > 0

\* metrics is a record an engine built from the tables in the state
Record == SingleReturned \/ MultiStored

\* an engine ran to its end, or to an exception, on the tables in the state
Ran == Record \/ pc = "crashed"

\* the income rows the running engine reads
Income == IF engine = "single" THEN ttm_data ELSE financials

Present(v) == ~IsNone(v)

\* ratio, numerator, denominator: keys of the metrics dict
Ratios ==
  { <<"EV/FCF Yield", "Free Cash Flow (FCF)", "Enterprise Value (EV)">>,
    <<"Total Debt / EBITDA", "Total Debt", "EBITDA">>,
    <<"EV / EBITDA", "Enterprise Value (EV)", "EBITDA">>,
    <<"ROIC", "NOPAT", "Invested Capital">> }

\* the lease rows' sum, 0 when either row is unavailable
LeasesOrZero ==
  LET ltl == balance_sheet["Long Term Capital Lease Obligation"]
      cl == balance_sheet["Current Capital Lease Obligation"]
  IN IF Present(ltl) /\ Present(cl) THEN Add(ltl, cl) ELSE Num(0)

LeaseRowsPresent ==
  /\ Present(balance_sheet["Long Term Capital Lease Obligation"])
  /\ Present(balance_sheet["Current Capital Lease Obligation"])

----------------------------------------------------------------------------
\* C1: with every statement table non-empty, whatever line items are present,
\* absent or zero, both engines run to a metrics record and never raise.
C1_NeverRaises ==
  (Ran /\ empty = {}) => (pc # "crashed" /\ exc = "none")

\* C2: in every metrics record of either engine, 'Tax Rate' is absent or a
\* number in [0, 1], also for a negative provision or pretax income and for a
\* provision larger than the pretax income.
C2_TaxRateInUnitInterval ==
  Record =>
    LET t == metrics["Tax Rate"]
    IN IsNone(t) \/ (IsNum(t) /\ ~Less(t, Num(0)) /\ ~Less(Num(1), t))

\* a record whose rate was clamped: the provision 300 exceeds the income 250
C2_Witness ==
  /\ MultiStored
  /\ financials["Tax Provision"] = Num(300)
  /\ financials["Pretax Income"] = Num(250)
  /\ metrics["Tax Rate"] = Num(1)

\* C3: in both engines each of the four ratios is absent whenever its numerator
\* or its denominator is absent, whatever the other operand (0 included).
C3_AbsentOperandAbsentRatio ==
  Record =>
    \A r \in Ratios :
      (IsNone(metrics[r[2]]) \/ IsNone(metrics[r[3]])) => IsNone(metrics[r[1]])

\* C4: in both engines, for each of the four ratios, a denominator equal to 0
\* with a present numerator > 0 gives +infinity and with a numerator 0 gives 0.
C4_ZeroDenominatorPolicy ==
  Record =>
    \A r \in Ratios :
      IsZero(metrics[r[3]]) =>
        /\ Positive(metrics[r[2]]) => metrics[r[1]] = Inf
        /\ IsZero(metrics[r[2]]) => metrics[r[1]] = Num(0)

\* C5: in calculate_stock_metrics, for each of the four ratios, a denominator
\* equal to 0 with a present numerator < 0 gives an infinity, never 0 or absent.
C5_NegativeOverZeroIsInfinite ==
  SingleReturned =>
    \A r \in Ratios :
      (IsZero(metrics[r[3]]) /\ IsNum(metrics[r[2]]) /\ metrics[r[2]].n < 0)
        => metrics[r[1]].k = "inf"

\* C6: in both engines, for each of the four ratios, a present numerator
\* (positive, zero or negative) over a present non-zero denominator gives the
\* quotient.
C6_PlainDivision ==
  Record =>
    \A r \in Ratios :
      (IsNum(metrics[r[2]]) /\ IsNum(metrics[r[3]]) /\ ~IsZero(metrics[r[3]]))
        => metrics[r[1]] = Div(metrics[r[2]], metrics[r[3]])

\* C7: in both engines invested capital is present exactly when total debt and
\* total equity are, and is then debt + equity + lease liabilities, the leases
\* being the two lease rows' sum, or 0 when either row is unavailable; an
\* unavailable lease row never makes the engine fail.
C7_InvestedCapital ==
  /\ Record =>
       LET debt == metrics["Total Debt"]
           equity == metrics["Total Equity"]
           ic == metrics["Invested Capital"]
       IN /\ Present(ic) <=> (Present(debt) /\ Present(equity))
          /\ Present(ic) => ic = Add(Add(debt, equity), LeasesOrZero)
  /\ (Ran /\ empty = {} /\ ~LeaseRowsPresent) => pc # "crashed"

\* C8: in both engines the tax rate is present exactly when the tax provision
\* and the pretax income are present and the pretax income is not 0, and is
\* then provision / income clamped to [0, 1]; with a pretax income of 0 the
\* tax rate and NOPAT are both absent.
C8_TaxRate ==
  (Record /\ empty = {}) =>
    LET tax == Income["Tax Provision"]
        pretax == Income["Pretax Income"]
        t == metrics["Tax Rate"]
    IN /\ Present(t) <=> (Present(tax) /\ Present(pretax) /\ ~IsZero(pretax))
       /\ Present(t) => t = PyMax(Num(0), PyMin(Num(1), Div(tax, pretax)))
       /\ IsZero(pretax) => (IsNone(t) /\ IsNone(metrics["NOPAT"]))

\* C9: in both engines NOPAT is present exactly when EBIT and the tax rate are,
\* and is then ebit * (1 - tax_rate): ebit 200, pretax income 250, provision 50
\* give the rate 1/5 and NOPAT 160; with EBIT absent NOPAT is absent and the
\* record is still returned (stated where the lease rows are available).
C9_Nopat ==
  /\ (Record /\ empty = {}) =>
       LET ebit == Income["EBIT"]
           t == metrics["Tax Rate"]
           nopat == metrics["NOPAT"]
       IN /\ Present(nopat) <=> (Present(ebit) /\ Present(t))
          /\ Present(nopat) => nopat = Mul(ebit, Sub(Num(1), t))
          /\ (ebit = Num(200) /\ Income["Pretax Income"] = Num(250)
                /\ Income["Tax Provision"] = Num(50))
               => (t = Rat(1, 5) /\ nopat = Num(160))
  /\ (Ran /\ empty = {} /\ IsNone(Income["EBIT"]) /\ LeaseRowsPresent)
       => (pc # "crashed" /\ IsNone(metrics["NOPAT"]))

\* C10: in both engines the derived fcf is the cash-flow statement's 'Free Cash
\* Flow' less its 'Capital Expenditure' when both are present and absent
\* otherwise, and the yield is that fcf over the enterprise value: enterprise
\* value 1000, free cash flow 120, capex 20 give fcf 100 and the yield 1/10.
C10_FcfLessCapex ==
  (Record /\ empty = {}) =>
    LET item == cashflow["Free Cash Flow"]
        capex == cashflow["Capital Expenditure"]
        fcf == metrics["Free Cash Flow (FCF)"]
    IN /\ fcf = IF Present(item) /\ Present(capex) THEN Sub(item, capex) ELSE None
       /\ (item = Num(120) /\ capex = Num(20)
             /\ info["enterpriseValue"] = Num(1000))
            => (fcf = Num(100) /\ metrics["EV/FCF Yield"] = Rat(1, 10))

\* C11: in calculate_stock_metrics total debt is the profile's totalDebt when
\* that is present; otherwise short-term + long-term debt only when both rows
\* are present; otherwise absent: a missing component never counts as 0.
C11_TotalDebtFallback ==
  (SingleReturned /\ "balance_sheet" \notin empty) =>
    LET direct == info["totalDebt"]
        short == balance_sheet["Short Long Term Debt"]
        long == balance_sheet["Long Term Debt"]
    IN metrics["Total Debt"] =
         IF Present(direct) THEN direct
         ELSE IF Present(short) /\ Present(long) THEN Add(short, long)
         ELSE None

\* C12: over N >= 1 columns calculate_stock_metrics_multiyear returns exactly N
\* records, one per column in column order, and no column's data, however
\* incomplete, stops the loop or drops a record.
C12_OneRecordPerPeriod ==
  engine = "multiyear" =>
    /\ pc # "crashed"
    /\ pc \in {"loop", "body"} => Len(metrics_by_year) <= ncols
    /\ (pc = "done" /\ ret = "metrics_by_year") =>
         metrics_by_year = [i \in 1..ncols |-> i]

\* every statement table empty and the profile holding enterpriseValue alone
AllEmptyEvOnly ==
  /\ empty = Statements
  /\ ttm_data = NoRows(IncomeKeys)
  /\ Present(info["enterpriseValue"])
  /\ \A key \in InfoKeys \ {"enterpriseValue"} : IsNone(info[key])

\* the metrics derived from statement line items
DerivedKeys ==
  {"Free Cash Flow (FCF)", "EBITDA", "Total Debt", "Total Equity", "EBIT",
   "Tax Rate", "NOPAT", "Invested Capital", "EV/FCF Yield",
   "Total Debt / EBITDA", "EV / EBITDA", "ROIC"}

\* C13: with every statement table empty and a profile of enterpriseValue
\* alone, calculate_stock_metrics still returns a record with the enterprise
\* value set and every derived metric absent, and the report prints each
\* absent metric as a not-available marker, never as 'None', and is printed
\* instead of the could-not-process message.
C13_ReportFromProfileAlone ==
  (engine = "single" /\ AllEmptyEvOnly /\ pc \in {"done", "crashed", "shown"}) =>
    /\ pc # "crashed"
    /\ ret = "metrics"
    /\ metrics["Enterprise Value (EV)"] = info["enterpriseValue"]
    /\ \A key \in DerivedKeys : IsNone(metrics[key])
    /\ pc = "shown" =>
         /\ report.kind = "metrics"
         /\ report.cells["Enterprise Value (EV)"] = "number"
         /\ \A key \in DerivedKeys : report.cells[key] = "N/A"

====
